---- MODULE Spec2Model ----
(***************************************************************************)
(* La Liga Tracker: the match / event store of src/main.go (the current    *)
(* program, lines 481-1110) over the SQLite schema of                      *)
(* src/database/init.sql (lines 1-72).                                     *)
(*                                                                         *)
(* The state is the content of the four tables, the AUTOINCREMENT          *)
(* bookkeeping of SQLite (sqlite_sequence), the last HTTP response and,    *)
(* for the requests that net/http serves in parallel goroutines, the       *)
(* requests that are between two of their store accesses (inflight).       *)
(* Every handler is an operator from (state, request) to (state,           *)
(* response); the action of a handler applies it to a request drawn from   *)
(* small input sets.                                                       *)
(***************************************************************************)
EXTENDS Integers, Sequences, FiniteSets, TLC

VARIABLES matches, events, sqlite_sequence, resp, inflight

vars == <<matches, events, sqlite_sequence, resp, inflight>>

(***************************************************************************)
(* Bounds of the model.                                                    *)
(***************************************************************************)
\* Create is disabled once the store has assigned this match id.
MaxMatchId == 5
\* RegisterEvent is disabled once this many event rows are stored.
MaxEvents == 10

(***************************************************************************)
(* Strings.  Go strings are byte sequences; the handlers inspect them with *)
(* a regular expression and with strconv.Atoi, so every input string has   *)
(* its characters spelled out here.                                        *)
(***************************************************************************)
Chars(s) ==
  CASE s = ""       -> <<>>
    [] s = "5"      -> <<"5">>
    [] s = "45"     -> <<"4", "5">>
    [] s = "30"     -> <<"3", "0">>
    [] s = "88"     -> <<"8", "8">>
    [] s = "0:00"   -> <<"0", ":", "0", "0">>
    [] s = "5:60"   -> <<"5", ":", "6", "0">>
    [] s = "00:00"  -> <<"0", "0", ":", "0", "0">>
    [] s = "05:00"  -> <<"0", "5", ":", "0", "0">>
    [] s = "02:30"  -> <<"0", "2", ":", "3", "0">>
    [] s = "07:45"  -> <<"0", "7", ":", "4", "5">>
    [] s = "12:34"  -> <<"1", "2", ":", "3", "4">>
    [] s = "12:59"  -> <<"1", "2", ":", "5", "9">>
    [] s = "99:59"  -> <<"9", "9", ":", "5", "9">>
    [] s = "21:12"  -> <<"2", "1", ":", "1", "2">>
    [] s = "44:00"  -> <<"4", "4", ":", "0", "0">>
    [] s = "05:55"  -> <<"0", "5", ":", "5", "5">>
    [] s = "35:00"  -> <<"3", "5", ":", "0", "0">>
    [] s = "36:20"  -> <<"3", "6", ":", "2", "0">>
    [] s = "60:00"  -> <<"6", "0", ":", "0", "0">>
    [] s = "88:00"  -> <<"8", "8", ":", "0", "0">>
    [] s = "70:00"  -> <<"7", "0", ":", "0", "0">>
    [] s = "100:00" -> <<"1", "0", "0", ":", "0", "0">>
    [] s = "05:00s" -> <<"0", "5", ":", "0", "0", "s">>
    [] s = "1"      -> <<"1">>
    [] s = "2"      -> <<"2">>
    [] s = "3"      -> <<"3">>
    [] s = "4"      -> <<"4">>
    [] s = "6"      -> <<"6">>
    [] s = "7"      -> <<"7">>
    [] s = "9999"   -> <<"9", "9", "9", "9">>
    [] s = "abc"    -> <<"a", "b", "c">>

DigitVal(c) ==
  CASE c = "0" -> 0 [] c = "1" -> 1 [] c = "2" -> 2 [] c = "3" -> 3
    [] c = "4" -> 4 [] c = "5" -> 5 [] c = "6" -> 6 [] c = "7" -> 7
    [] c = "8" -> 8 [] c = "9" -> 9

Digit09 == {"0", "1", "2", "3", "4", "5", "6", "7", "8", "9"}
Digit05 == {"0", "1", "2", "3", "4", "5"}

RECURSIVE DecimalValue(_)
DecimalValue(cs) ==
  IF cs = <<>> THEN 0
  ELSE 10 * DecimalValue(SubSeq(cs, 1, Len(cs) - 1)) + DigitVal(cs[Len(cs)])

IsDecimal(cs) == Len(cs) > 0 /\ \A i \in 1..Len(cs) : cs[i] \in Digit09

\* strconv.Atoi with its error dropped: 0 for a text that is not a number.
Atoi(s) == IF IsDecimal(Chars(s)) THEN DecimalValue(Chars(s)) ELSE 0

\* The value SQLite compares with an INTEGER column when the bound parameter
\* is the text of the path segment: the number it spells, or a text that
\* equals no integer (NoRowId).
NoRowId == -1
SqlInt(s) == IF IsDecimal(Chars(s)) THEN DecimalValue(Chars(s)) ELSE NoRowId

Tables == {"goals", "yellow_cards", "red_cards"}

(***************************************************************************)
(* The database after database/init.sql.                                   *)
(***************************************************************************)
MatchRow(h, a, d, x) ==
  [home_team |-> h, away_team |-> a, match_date |-> d, extra_time |-> x]

\* A mutation of EventRow: the team and the player are bound to each other's
\* column.
EventRowSwapped(m, t, p, mi) ==
  [match_id |-> m, team |-> p, player |-> t, minute |-> mi]

EventRow(m, t, p, mi) ==
  [match_id |-> m, team |-> t, player |-> p, minute |-> mi]

SeedMatches ==
  <<MatchRow("Real Madrid", "Barcelona", "2025-05-10", "05:00"),
    MatchRow("Atletico Madrid", "Valencia", "2025-06-01", "02:30"),
    MatchRow("Sevilla", "Villarreal", "2025-06-15", "00:00"),
    MatchRow("Boca Juniors", "River Plate", "2025-07-20", "07:45")>>

SeedGoals ==
  <<EventRow(1, "Real Madrid", "Vinicius Jr.", "12:34"),
    EventRow(1, "Barcelona", "Lewandowski", "21:12"),
    EventRow(2, "Atletico Madrid", "Griezmann", "44:00"),
    EventRow(4, "River Plate", "Borja", "05:55")>>

SeedYellowCards ==
  <<EventRow(1, "Real Madrid", "Carvajal", "35:00"),
    EventRow(1, "Barcelona", "Gavi", "36:20"),
    EventRow(2, "Valencia", "Paulista", "60:00")>>

SeedRedCards ==
  <<EventRow(2, "Valencia", "Paulista", "88:00"),
    EventRow(4, "Boca Juniors", "Rojo", "70:00")>>

NoResponse == [op |-> "none", status |-> 0, body |-> [empty |-> TRUE]]

\* No request of that handler is between two store accesses.
Idle == [stage |-> "idle"]

Init ==
  /\ matches = SeedMatches
  /\ events = [goals |-> SeedGoals, yellow_cards |-> SeedYellowCards,
               red_cards |-> SeedRedCards]
  /\ sqlite_sequence = [matches |-> Len(SeedMatches), goals |-> Len(SeedGoals),
                        yellow_cards |-> Len(SeedYellowCards),
                        red_cards |-> Len(SeedRedCards)]
  /\ resp = NoResponse
  /\ inflight = [reg |-> Idle, get |-> Idle]

(***************************************************************************)
(* The store.  A store db is a record of the tables (matches, events) and  *)
(* of the AUTOINCREMENT bookkeeping (seq).                                 *)
(***************************************************************************)
Max(a, b) == IF a >= b THEN a ELSE b

MaxKey(rows) == IF DOMAIN rows = {} THEN 0
                ELSE CHOOSE k \in DOMAIN rows : \A j \in DOMAIN rows : j <= k

\* A mutation of NextRowId: a plain INTEGER PRIMARY KEY, which hands out the
\* largest stored id plus one and so reuses the id of a deleted last row.
NextRowIdReused(rows, last) == MaxKey(rows) + 1

\* A mutation of NextRowId: the smallest id that no stored row has.
NextRowIdFirstFree(rows, last) ==
  CHOOSE k \in 1..(MaxKey(rows) + 1) :
    /\ k \notin DOMAIN rows
    /\ \A j \in 1..(k - 1) : j \in DOMAIN rows

\* INTEGER PRIMARY KEY AUTOINCREMENT: one more than the largest id the table
\* has ever held, which sqlite_sequence remembers across deletes.
NextRowId(rows, last) == Max(MaxKey(rows), last) + 1

Insert(rows, k, row) == [i \in DOMAIN rows \cup {k} |-> IF i = k THEN row ELSE rows[i]]

Remove(rows, k) == [i \in DOMAIN rows \ {k} |-> rows[i]]

\* The rows of a table in rowid order, as a SELECT without ORDER BY walks them.
RECURSIVE RowIds(_)
RowIds(ks) ==
  IF ks = {} THEN <<>>
  ELSE LET k == CHOOSE x \in ks : \A y \in ks : x <= y
       IN  <<k>> \o RowIds(ks \ {k})

\* A mutation of CountEvents: the count forgets the match_id filter.
CountEventsAnyMatch(rows, matchID, team) ==
  Cardinality({i \in DOMAIN rows : rows[i].team = team})

\* SELECT COUNT FROM <table> WHERE match_id = ? AND team = ?
\* A mutation of CountEvents: the count forgets the team filter.
CountEventsAnyTeam(rows, matchID, team) ==
  Cardinality({i \in DOMAIN rows : rows[i].match_id = matchID})

CountEvents(rows, matchID, team) ==
  Cardinality({i \in DOMAIN rows : rows[i].match_id = matchID /\ rows[i].team = team})

MatchEvent(i, row) ==
  [id |-> i, team |-> row.team, player |-> row.player, minute |-> row.minute]

\* A mutation of fetchEvents: the query forgets the match_id filter.
fetchEventsAnyMatch(rows, matchID) ==
  LET ids == RowIds(DOMAIN rows)
  IN  [n \in 1..Len(ids) |-> MatchEvent(ids[n], rows[ids[n]])]

\* fetchEvents: SELECT id, team, player, minute FROM <table> WHERE match_id = ?
fetchEvents(rows, matchID) ==
  LET ids == RowIds({i \in DOMAIN rows : rows[i].match_id = SqlInt(matchID)})
  IN  [n \in 1..Len(ids) |-> MatchEvent(ids[n], rows[ids[n]])]

\* A mutation of isValidTimeFormat: the seconds are any two digits.
isValidTimeFormatSS09(extraTime) ==
  LET c == Chars(extraTime)
      n == Len(c)
  IN  /\ n \in {4, 5}
      /\ \A i \in 1..(n - 3) : c[i] \in Digit09
      /\ c[n - 2] = ":"
      /\ c[n - 1] \in Digit09
      /\ c[n] \in Digit09

\* isValidTimeFormat: the regular expression ^[0-9]{1,2}:[0-5][0-9]$
isValidTimeFormat(extraTime) ==
  LET c == Chars(extraTime)
      n == Len(c)
  IN  /\ n \in {4, 5}
      /\ \A i \in 1..(n - 3) : c[i] \in Digit09
      /\ c[n - 2] = ":"
      /\ c[n - 1] \in Digit05
      /\ c[n] \in Digit09

(***************************************************************************)
(* Requests and responses.                                                 *)
(***************************************************************************)
\* A body that json.Decode rejects.
InvalidJSON == [invalid |-> TRUE]

\* Which statement of the request the store fails, if any.
DbErrs == {"none", "query", "exec"}

Response(op, status, body) == [op |-> op, status |-> status, body |-> body]

Error(op, status, text) == Response(op, status, [error |-> text])

\* The outcome of a handler: the store it leaves and the response it writes.
Outcome(m, e, s, r) == [matches |-> m, events |-> e, seq |-> s, resp |-> r]

\* A handler that returns without writing to the store.
Reply(db, r) == Outcome(db.matches, db.events, db.seq, r)

FullMatchData(db, i, row, goalList, yellowList, redList) ==
  [id |-> i, homeTeam |-> row.home_team, awayTeam |-> row.away_team,
   matchDate |-> row.match_date, extraTime |-> row.extra_time,
   homeGoals |-> CountEvents(db.events.goals, i, row.home_team),
   awayGoals |-> CountEvents(db.events.goals, i, row.away_team),
   goals |-> goalList,
   awayYellowCardsCount |-> CountEvents(db.events.yellow_cards, i, row.away_team),
   awayRedCardsCount |-> CountEvents(db.events.red_cards, i, row.away_team),
   homeYellowCardsCount |-> CountEvents(db.events.yellow_cards, i, row.home_team),
   homeRedCardsCount |-> CountEvents(db.events.red_cards, i, row.home_team),
   yellow_cards |-> yellowList, red_cards |-> redList]

(***************************************************************************)
(* The handlers.                                                           *)
(***************************************************************************)
\* A mutation of missingField: rejects only a body with no field at all.
missingFieldAll(m) == m.homeTeam = "" /\ m.awayTeam = "" /\ m.matchDate = ""

\* A mutation of missingField: two equal team names are rejected as well.
missingFieldSameTeams(m) ==
  m.homeTeam = "" \/ m.awayTeam = "" \/ m.matchDate = "" \/ m.homeTeam = m.awayTeam

\* A mutation of missingField: the date is not required.
missingFieldNoDate(m) == m.homeTeam = "" \/ m.awayTeam = ""

\* The required-field test of createMatch and updateMatch.
missingField(m) == m.homeTeam = "" \/ m.awayTeam = "" \/ m.matchDate = ""

\* A mutation of getMatches: the away red cards are counted for the home team.
getMatchesHomeRed(db, dbErr) ==
  IF dbErr = "query" THEN Reply(db, Error("getMatches", 500, "query failed"))
  ELSE LET ids == RowIds(DOMAIN db.matches)
       IN  Reply(db, Response("getMatches", 200,
                 [list |-> [n \in 1..Len(ids) |->
                             [FullMatchData(db, ids[n], db.matches[ids[n]],
                                            <<>>, <<>>, <<>>)
                                EXCEPT !.awayRedCardsCount =
                                  CountEvents(db.events.red_cards, ids[n],
                                              db.matches[ids[n]].home_team)]]]))

\* The statements of getMatches that can fail: the SELECT ("query"), the
\* scan of a row ("scan"), the COUNT queries ("count") and the iteration
\* over the rows ("rows").
ListErrs == {"none", "query", "scan", "count", "rows"}

\* A row of the list whose six COUNT scans failed: the error of
\* QueryRow(...).Scan is dropped and the fields keep their zero value.
UncountedMatchData(i, row) ==
  [id |-> i, homeTeam |-> row.home_team, awayTeam |-> row.away_team,
   matchDate |-> row.match_date, extraTime |-> row.extra_time,
   homeGoals |-> 0, awayGoals |-> 0, goals |-> <<>>,
   awayYellowCardsCount |-> 0, awayRedCardsCount |-> 0,
   homeYellowCardsCount |-> 0, homeRedCardsCount |-> 0,
   yellow_cards |-> <<>>, red_cards |-> <<>>]

\* getMatches answers 500 when the SELECT or the scan of a row fails.  It
\* drops the error of every COUNT scan, and it does not read rows.Err()
\* after the loop: an iteration that fails after the first row ends the
\* loop and the rows read so far are answered with 200.
getMatches(db, dbErr) ==
  IF dbErr = "query" THEN Reply(db, Error("getMatches", 500, "query failed"))
  ELSE IF dbErr = "scan" /\ DOMAIN db.matches # {}
  THEN Reply(db, Error("getMatches", 500, "scan failed"))
  ELSE LET ids == RowIds(DOMAIN db.matches)
           read == IF dbErr = "rows" /\ Len(ids) > 1 THEN 1 ELSE Len(ids)
       IN  Reply(db, Response("getMatches", 200,
                 [list |-> [n \in 1..read |->
                             IF dbErr = "count"
                             THEN UncountedMatchData(ids[n], db.matches[ids[n]])
                             ELSE FullMatchData(db, ids[n], db.matches[ids[n]],
                                                <<>>, <<>>, <<>>)]]))

getMatch(db, id, dbErr) ==
  IF dbErr = "query" \/ SqlInt(id) \notin DOMAIN db.matches
  THEN Reply(db, Error("getMatch", 404, "Partido no encontrado"))
  ELSE Reply(db, Response("getMatch", 200,
             FullMatchData(db, SqlInt(id), db.matches[SqlInt(id)],
                           fetchEvents(db.events.goals, id),
                           fetchEvents(db.events.yellow_cards, id),
                           fetchEvents(db.events.red_cards, id))))

\* A mutation of createMatch: the table has UNIQUE (home_team, away_team,
\* match_date) and the INSERT of a stored triple fails.
createMatchUnique(db, body, dbErr) ==
  IF body = InvalidJSON
  THEN Reply(db, Error("createMatch", 400, "JSON invalido"))
  ELSE IF missingField(body)
  THEN Reply(db, Error("createMatch", 400, "Todos los campos son obligatorios"))
  ELSE IF dbErr = "exec"
            \/ \E k \in DOMAIN db.matches :
                 /\ db.matches[k].home_team = body.homeTeam
                 /\ db.matches[k].away_team = body.awayTeam
                 /\ db.matches[k].match_date = body.matchDate
  THEN Reply(db, Error("createMatch", 500, "exec failed"))
  ELSE LET id == NextRowId(db.matches, db.seq.matches)
       IN  Outcome(Insert(db.matches, id,
                          MatchRow(body.homeTeam, body.awayTeam, body.matchDate, "00:00")),
                   db.events,
                   [db.seq EXCEPT !.matches = id],
                   Response("createMatch", 200,
                            [id |-> id, homeTeam |-> body.homeTeam,
                             awayTeam |-> body.awayTeam, matchDate |-> body.matchDate,
                             extraTime |-> "00:00"]))

createMatch(db, body, dbErr) ==
  IF body = InvalidJSON
  THEN Reply(db, Error("createMatch", 400, "JSON invalido"))
  ELSE IF missingField(body)
  THEN Reply(db, Error("createMatch", 400, "Todos los campos son obligatorios"))
  ELSE IF dbErr = "exec"
  THEN Reply(db, Error("createMatch", 500, "exec failed"))
  ELSE LET id == NextRowId(db.matches, db.seq.matches)
       IN  Outcome(Insert(db.matches, id,
                          MatchRow(body.homeTeam, body.awayTeam, body.matchDate, "00:00")),
                   db.events,
                   [db.seq EXCEPT !.matches = id],
                   Response("createMatch", 200,
                            [id |-> id, homeTeam |-> body.homeTeam,
                             awayTeam |-> body.awayTeam, matchDate |-> body.matchDate,
                             extraTime |-> "00:00"]))

\* A mutation of updateRows: the statement also writes the body's extra time.
updateRowsExtraTime(rows, id, m) ==
  [i \in DOMAIN rows |->
     IF i = SqlInt(id)
     THEN MatchRow(m.homeTeam, m.awayTeam, m.matchDate, m.extraTime)
     ELSE rows[i]]

\* A mutation of updateRows: INSERT OR REPLACE, which adds a missing row.
updateRowsUpsert(rows, id, m) ==
  IF SqlInt(id) \in DOMAIN rows \/ SqlInt(id) = NoRowId
  THEN [i \in DOMAIN rows |->
          IF i = SqlInt(id)
          THEN [rows[i] EXCEPT !.home_team = m.homeTeam, !.away_team = m.awayTeam,
                               !.match_date = m.matchDate]
          ELSE rows[i]]
  ELSE Insert(rows, SqlInt(id), MatchRow(m.homeTeam, m.awayTeam, m.matchDate, "00:00"))

\* A mutation of updateRows: the statement also sets id to the body's id.
updateRowsSetId(rows, id, m) ==
  IF SqlInt(id) \notin DOMAIN rows THEN rows
  ELSE Insert(Remove(rows, SqlInt(id)), m.id,
              [rows[SqlInt(id)] EXCEPT !.home_team = m.homeTeam,
                                       !.away_team = m.awayTeam,
                                       !.match_date = m.matchDate])

\* A mutation of updateRows: the UPDATE selects the rows by the team names
\* of the addressed match instead of by its id.
updateRowsSameTeams(rows, id, m) ==
  [i \in DOMAIN rows |->
     IF /\ SqlInt(id) \in DOMAIN rows
        /\ rows[i].home_team = rows[SqlInt(id)].home_team
        /\ rows[i].away_team = rows[SqlInt(id)].away_team
     THEN [rows[i] EXCEPT !.home_team = m.homeTeam, !.away_team = m.awayTeam,
                          !.match_date = m.matchDate]
     ELSE rows[i]]

\* UPDATE matches SET home_team=?, away_team=?, match_date=? WHERE id=?
updateRows(rows, id, m) ==
  [i \in DOMAIN rows |->
     IF i = SqlInt(id)
     THEN [rows[i] EXCEPT !.home_team = m.homeTeam, !.away_team = m.awayTeam,
                          !.match_date = m.matchDate]
     ELSE rows[i]]

\* A mutation of updateMatch: the new team names are also written to the
\* events of the match.
updateMatchRenameEvents(db, id, body, dbErr) ==
  IF body = InvalidJSON
  THEN Reply(db, Error("updateMatch", 400, "JSON invalido"))
  ELSE IF missingField(body)
  THEN Reply(db, Error("updateMatch", 400, "Todos los campos son obligatorios"))
  ELSE IF dbErr = "exec"
  THEN Reply(db, Error("updateMatch", 500, "exec failed"))
  ELSE Outcome(updateRows(db.matches, id, body),
               [t \in Tables |->
                  [k \in DOMAIN db.events[t] |->
                     IF db.events[t][k].match_id = SqlInt(id)
                          /\ SqlInt(id) \in DOMAIN db.matches
                          /\ db.events[t][k].team = db.matches[SqlInt(id)].away_team
                     THEN [db.events[t][k] EXCEPT !.team = body.awayTeam]
                     ELSE db.events[t][k]]],
               db.seq,
               Response("updateMatch", 200,
                        [id |-> Atoi(id), homeTeam |-> body.homeTeam,
                         awayTeam |-> body.awayTeam, matchDate |-> body.matchDate,
                         extraTime |-> body.extraTime]))

updateMatch(db, id, body, dbErr) ==
  IF body = InvalidJSON
  THEN Reply(db, Error("updateMatch", 400, "JSON invalido"))
  ELSE IF missingField(body)
  THEN Reply(db, Error("updateMatch", 400, "Todos los campos son obligatorios"))
  ELSE IF dbErr = "exec"
  THEN Reply(db, Error("updateMatch", 500, "exec failed"))
  ELSE Outcome(updateRows(db.matches, id, body), db.events, db.seq,
               Response("updateMatch", 200,
                        [id |-> Atoi(id), homeTeam |-> body.homeTeam,
                         awayTeam |-> body.awayTeam, matchDate |-> body.matchDate,
                         extraTime |-> body.extraTime]))

\* A mutation of deleteMatch: the events of the match are deleted with it.
deleteMatchCascade(db, id, dbErr) ==
  IF dbErr = "exec"
  THEN Reply(db, Error("deleteMatch", 500, "exec failed"))
  ELSE Outcome(Remove(db.matches, SqlInt(id)),
               [t \in Tables |->
                  [k \in {j \in DOMAIN db.events[t] :
                            db.events[t][j].match_id # SqlInt(id)} |-> db.events[t][k]]],
               db.seq,
               Response("deleteMatch", 204, [empty |-> TRUE]))

\* A mutation of deleteMatch: no row deleted is answered as not found.
deleteMatchRowsAffected(db, id, dbErr) ==
  IF dbErr = "exec"
  THEN Reply(db, Error("deleteMatch", 500, "exec failed"))
  ELSE IF SqlInt(id) \notin DOMAIN db.matches
  THEN Reply(db, Error("deleteMatch", 404, "Partido no encontrado"))
  ELSE Outcome(Remove(db.matches, SqlInt(id)), db.events, db.seq,
               Response("deleteMatch", 204, [empty |-> TRUE]))

\* DELETE FROM matches WHERE id=? ; the connection does not enforce foreign
\* keys, so the statement touches no event row.
deleteMatch(db, id, dbErr) ==
  IF dbErr = "exec"
  THEN Reply(db, Error("deleteMatch", 500, "exec failed"))
  ELSE Outcome(Remove(db.matches, SqlInt(id)), db.events, db.seq,
               Response("deleteMatch", 204, [empty |-> TRUE]))

EventMessage(table) ==
  CASE table = "goals" -> "Gol registrado correctamente"
    [] table = "yellow_cards" -> "Tarjeta amarilla registrada correctamente"
    [] table = "red_cards" -> "Tarjeta roja registrada correctamente"
    [] OTHER -> "Evento registrado correctamente"

\* A mutation of emptyField: the player is not required.
emptyFieldNoPlayer(p) == p.team = "" \/ p.minute = ""

\* The required-field test of registerEvent.
emptyField(p) == p.team = "" \/ p.player = "" \/ p.minute = ""

\* A mutation of teamOfMatch: any team of any stored match is accepted.
teamOfAnyMatch(db, team, home, away) ==
  \E i \in DOMAIN db.matches :
    team = db.matches[i].home_team \/ team = db.matches[i].away_team

\* The team test of registerEvent, on the names read from the match row.
teamOfMatch(db, team, home, away) == ~(team # home /\ team # away)

\* A mutation of registerEvent: the match is looked up before the payload
\* is validated.
registerEventLookupFirst(db, id, body, dbErr, table) ==
  IF body = InvalidJSON
  THEN Reply(db, Error("registerEvent", 400, "JSON invalido"))
  ELSE IF dbErr = "query" \/ SqlInt(id) \notin DOMAIN db.matches
  THEN Reply(db, Error("registerEvent", 404, "Partido no encontrado"))
  ELSE IF emptyField(body)
  THEN Reply(db, Error("registerEvent", 400, "Todos los campos son requeridos"))
  ELSE IF ~isValidTimeFormat(body.minute)
  THEN Reply(db, Error("registerEvent", 400, "Formato de tiempo invalido. Usa MM:SS"))
  ELSE IF ~teamOfMatch(db, body.team, db.matches[SqlInt(id)].home_team,
                       db.matches[SqlInt(id)].away_team)
  THEN Reply(db, Error("registerEvent", 400, "El equipo no corresponde al partido"))
  ELSE IF dbErr = "exec"
  THEN Reply(db, Error("registerEvent", 500, "Error al registrar el gol"))
  ELSE LET k == NextRowId(db.events[table], db.seq[table])
       IN  Outcome(db.matches,
                   [db.events EXCEPT ![table] =
                      Insert(@, k, EventRow(SqlInt(id), body.team, body.player, body.minute))],
                   [db.seq EXCEPT ![table] = k],
                   Response("registerEvent", 200, [message |-> EventMessage(table)]))

registerEvent(db, id, body, dbErr, table) ==
  IF body = InvalidJSON
  THEN Reply(db, Error("registerEvent", 400, "JSON invalido"))
  ELSE IF emptyField(body)
  THEN Reply(db, Error("registerEvent", 400, "Todos los campos son requeridos"))
  ELSE IF ~isValidTimeFormat(body.minute)
  THEN Reply(db, Error("registerEvent", 400, "Formato de tiempo invalido. Usa MM:SS"))
  ELSE IF dbErr = "query" \/ SqlInt(id) \notin DOMAIN db.matches
  THEN Reply(db, Error("registerEvent", 404, "Partido no encontrado"))
  ELSE IF ~teamOfMatch(db, body.team, db.matches[SqlInt(id)].home_team,
                       db.matches[SqlInt(id)].away_team)
  THEN Reply(db, Error("registerEvent", 400, "El equipo no corresponde al partido"))
  ELSE IF dbErr = "exec"
  THEN Reply(db, Error("registerEvent", 500, "Error al registrar el gol"))
  ELSE LET k == NextRowId(db.events[table], db.seq[table])
       IN  Outcome(db.matches,
                   [db.events EXCEPT ![table] =
                      Insert(@, k, EventRow(SqlInt(id), body.team, body.player, body.minute))],
                   [db.seq EXCEPT ![table] = k],
                   Response("registerEvent", 200, [message |-> EventMessage(table)]))

registerGoal(db, id, body, dbErr) == registerEvent(db, id, body, dbErr, "goals")

registerYellowCard(db, id, body, dbErr) ==
  registerEvent(db, id, body, dbErr, "yellow_cards")

registerRedCard(db, id, body, dbErr) ==
  registerEvent(db, id, body, dbErr, "red_cards")

\* A mutation of setExtraTime: the format is checked before the match is
\* looked up.
setExtraTimeFormatFirst(db, id, body, dbErr) ==
  IF body = InvalidJSON \/ body.extraTime = ""
  THEN Reply(db, Error("setExtraTime", 400, "JSON invalido o tiempo extra faltante"))
  ELSE IF ~isValidTimeFormat(body.extraTime)
  THEN Reply(db, Error("setExtraTime", 400, "Formato de tiempo invalido. Usa MM:SS"))
  ELSE IF dbErr = "query" \/ SqlInt(id) \notin DOMAIN db.matches
  THEN Reply(db, Error("setExtraTime", 404, "Partido no encontrado"))
  ELSE IF dbErr = "exec"
  THEN Reply(db, Error("setExtraTime", 500, "Error al actualizar el tiempo extra"))
  ELSE Outcome([db.matches EXCEPT ![SqlInt(id)].extra_time = body.extraTime],
               db.events, db.seq,
               Response("setExtraTime", 200,
                        [message |-> "Tiempo extra actualizado correctamente"]))

\* A mutation of setExtraTime: the UPDATE has no WHERE clause.
setExtraTimeEveryMatch(db, id, body, dbErr) ==
  IF body = InvalidJSON \/ body.extraTime = ""
  THEN Reply(db, Error("setExtraTime", 400, "JSON invalido o tiempo extra faltante"))
  ELSE IF dbErr = "query" \/ SqlInt(id) \notin DOMAIN db.matches
  THEN Reply(db, Error("setExtraTime", 404, "Partido no encontrado"))
  ELSE IF ~isValidTimeFormat(body.extraTime)
  THEN Reply(db, Error("setExtraTime", 400, "Formato de tiempo invalido. Usa MM:SS"))
  ELSE IF dbErr = "exec"
  THEN Reply(db, Error("setExtraTime", 500, "Error al actualizar el tiempo extra"))
  ELSE Outcome([i \in DOMAIN db.matches |->
                  [db.matches[i] EXCEPT !.extra_time = body.extraTime]],
               db.events, db.seq,
               Response("setExtraTime", 200,
                        [message |-> "Tiempo extra actualizado correctamente"]))

\* A mutation of setExtraTime: the value is stored without the format test.
setExtraTimeNoFormat(db, id, body, dbErr) ==
  IF body = InvalidJSON \/ body.extraTime = ""
  THEN Reply(db, Error("setExtraTime", 400, "JSON invalido o tiempo extra faltante"))
  ELSE IF dbErr = "query" \/ SqlInt(id) \notin DOMAIN db.matches
  THEN Reply(db, Error("setExtraTime", 404, "Partido no encontrado"))
  ELSE IF dbErr = "exec"
  THEN Reply(db, Error("setExtraTime", 500, "Error al actualizar el tiempo extra"))
  ELSE Outcome([db.matches EXCEPT ![SqlInt(id)].extra_time = body.extraTime],
               db.events, db.seq,
               Response("setExtraTime", 200,
                        [message |-> "Tiempo extra actualizado correctamente"]))

setExtraTime(db, id, body, dbErr) ==
  IF body = InvalidJSON \/ body.extraTime = ""
  THEN Reply(db, Error("setExtraTime", 400, "JSON invalido o tiempo extra faltante"))
  ELSE IF dbErr = "query" \/ SqlInt(id) \notin DOMAIN db.matches
  THEN Reply(db, Error("setExtraTime", 404, "Partido no encontrado"))
  ELSE IF ~isValidTimeFormat(body.extraTime)
  THEN Reply(db, Error("setExtraTime", 400, "Formato de tiempo invalido. Usa MM:SS"))
  ELSE IF dbErr = "exec"
  THEN Reply(db, Error("setExtraTime", 500, "Error al actualizar el tiempo extra"))
  ELSE Outcome([db.matches EXCEPT ![SqlInt(id)].extra_time = body.extraTime],
               db.events, db.seq,
               Response("setExtraTime", 200,
                        [message |-> "Tiempo extra actualizado correctamente"]))

(***************************************************************************)
(* The inputs of the requests.                                             *)
(***************************************************************************)
\* Path segments {id}: a seeded match, the first match Create adds, and a
\* text that is no number.
PathIds == {"1", "5", "abc"}

HomeTeams == {"", "Real Madrid"}
AwayTeams == {"", "Valencia"}
MatchDates == {"", "2025-06-01"}
BodyIds == {7}
BodyExtraTimes == {"5:60"}

MatchBodies ==
  [id : BodyIds, homeTeam : HomeTeams, awayTeam : AwayTeams,
   matchDate : MatchDates, extraTime : BodyExtraTimes] \cup {InvalidJSON}

GoodMatchBody ==
  [id |-> 7, homeTeam |-> "Real Madrid", awayTeam |-> "Valencia",
   matchDate |-> "2025-06-01", extraTime |-> "5:60"]

EventTeams == {"", "Real Madrid", "real madrid", "Valencia"}
Minutes == {"", "45", "12:34"}

\* Every team with a player and a well-formed minute, the same payload with
\* no player or with another minute, and a malformed body.
EventBodies ==
  [team : EventTeams, player : {"Cristiano Ronaldo"}, minute : {"12:34"}]
    \cup [team : {"Real Madrid"}, player : {""}, minute : {"12:34"}]
    \cup [team : {"Real Madrid"}, player : {"Cristiano Ronaldo"}, minute : Minutes]
    \cup {InvalidJSON}

GoodEventBody ==
  [team |-> "Real Madrid", player |-> "Cristiano Ronaldo", minute |-> "12:34"]

ExtraTimes == {"", "5:60", "12:59"}

ExtraTimeBodies == [extraTime : ExtraTimes] \cup {InvalidJSON}

GoodExtraTimeBody == [extraTime |-> "12:59"]

\* A request is a body and the statement the store fails on; the store
\* fails only on requests that reach it.
Faults == {"query", "exec"}

MatchRequests == (MatchBodies \X {"none"}) \cup ({GoodMatchBody} \X Faults)

EventRequests == (EventBodies \X {"none"}) \cup ({GoodEventBody} \X Faults)

ExtraTimeRequests == (ExtraTimeBodies \X {"none"}) \cup ({GoodExtraTimeBody} \X Faults)

(***************************************************************************)
(* The actions: one request served to completion.                          *)
(***************************************************************************)
\* The store of the current state.
Store == [matches |-> matches, events |-> events, seq |-> sqlite_sequence]

Serve(out) ==
  /\ matches' = out.matches
  /\ events' = out.events
  /\ sqlite_sequence' = out.seq
  /\ resp' = out.resp
  /\ inflight' = inflight

StoredEvents ==
  Cardinality(DOMAIN events.goals) + Cardinality(DOMAIN events.yellow_cards)
    + Cardinality(DOMAIN events.red_cards)

GetMatches == \E dbErr \in DbErrs : Serve(getMatches(Store, dbErr))

GetMatch == \E id \in PathIds, dbErr \in DbErrs : Serve(getMatch(Store, id, dbErr))

CreateMatch ==
  /\ NextRowId(matches, sqlite_sequence.matches) <= MaxMatchId
  /\ \E rq \in MatchRequests : Serve(createMatch(Store, rq[1], rq[2]))

UpdateMatch ==
  \E id \in PathIds, rq \in MatchRequests : Serve(updateMatch(Store, id, rq[1], rq[2]))

DeleteMatch == \E id \in PathIds, dbErr \in DbErrs : Serve(deleteMatch(Store, id, dbErr))

RegisterGoal ==
  /\ StoredEvents < MaxEvents
  /\ \E id \in PathIds, rq \in EventRequests :
       Serve(registerGoal(Store, id, rq[1], rq[2]))

RegisterYellowCard ==
  /\ StoredEvents < MaxEvents
  /\ \E id \in PathIds, rq \in EventRequests :
       Serve(registerYellowCard(Store, id, rq[1], rq[2]))

RegisterRedCard ==
  /\ StoredEvents < MaxEvents
  /\ \E id \in PathIds, rq \in EventRequests :
       Serve(registerRedCard(Store, id, rq[1], rq[2]))

SetExtraTime ==
  \E id \in PathIds, rq \in ExtraTimeRequests :
    Serve(setExtraTime(Store, id, rq[1], rq[2]))

Next ==
  \/ GetMatches
  \/ GetMatch
  \/ CreateMatch
  \/ UpdateMatch
  \/ DeleteMatch
  \/ RegisterGoal
  \/ RegisterYellowCard
  \/ RegisterRedCard
  \/ SetExtraTime

Spec == Init /\ [][Next]_vars

(***************************************************************************)
(* The time-format specification: the same store and handlers, with the    *)
(* extra-time and minute values drawn from a larger set of texts.          *)
(***************************************************************************)
TimeValues ==
  {"", "5", "45", "5:60", "100:00", "05:00s", "05:00", "12:59", "0:00", "99:59"}

TimePathIds == {"1", "abc"}

TimeSetExtraTime ==
  \E id \in TimePathIds, t \in TimeValues :
    Serve(setExtraTime(Store, id, [extraTime |-> t], "none"))

TimeRegisterEvent ==
  /\ StoredEvents < MaxEvents
  /\ \E id \in TimePathIds, t \in TimeValues :
       \/ Serve(registerGoal(Store, id, [GoodEventBody EXCEPT !.minute = t], "none"))
       \/ Serve(registerYellowCard(Store, id, [GoodEventBody EXCEPT !.minute = t], "none"))
       \/ Serve(registerRedCard(Store, id, [GoodEventBody EXCEPT !.minute = t], "none"))

TimeGetMatch == \E id \in TimePathIds : Serve(getMatch(Store, id, "none"))

NextTime ==
  \/ TimeSetExtraTime
  \/ TimeRegisterEvent
  \/ TimeGetMatch

SpecTime == Init /\ [][NextTime]_vars

(***************************************************************************)
(* The concurrent specification.  net/http serves every request in its own *)
(* goroutine and no handler opens a transaction, so the store accesses of  *)
(* two requests interleave: each action below is one store access (one     *)
(* db.QueryRow, db.Query or db.Exec) of one request.                       *)
(***************************************************************************)
\* A mutation of insertEvent: the connection enforces the foreign key, and
\* the INSERT fails when the match row is gone.
insertEventForeignKey(db, id, body, table) ==
  IF SqlInt(id) \notin DOMAIN db.matches
  THEN Reply(db, Error("registerEvent", 500, "Error al registrar el gol"))
  ELSE LET k == NextRowId(db.events[table], db.seq[table])
       IN  Outcome(db.matches,
                   [db.events EXCEPT ![table] =
                      Insert(@, k, EventRow(SqlInt(id), body.team, body.player, body.minute))],
                   [db.seq EXCEPT ![table] = k],
                   Response("registerEvent", 200, [message |-> EventMessage(table)]))

\* The second store access of registerEvent: the INSERT and the answer.
insertEvent(db, id, body, table) ==
  LET k == NextRowId(db.events[table], db.seq[table])
  IN  Outcome(db.matches,
              [db.events EXCEPT ![table] =
                 Insert(@, k, EventRow(SqlInt(id), body.team, body.player, body.minute))],
              [db.seq EXCEPT ![table] = k],
              Response("registerEvent", 200, [message |-> EventMessage(table)]))

\* The first store access of getMatch: the row, before any count is read.
getMatchRow(db, id) ==
  LET row == db.matches[SqlInt(id)]
  IN  [id |-> SqlInt(id), homeTeam |-> row.home_team, awayTeam |-> row.away_team,
       matchDate |-> row.match_date, extraTime |-> row.extra_time,
       homeGoals |-> 0, awayGoals |-> 0, goals |-> <<>>,
       awayYellowCardsCount |-> 0, awayRedCardsCount |-> 0,
       homeYellowCardsCount |-> 0, homeRedCardsCount |-> 0,
       yellow_cards |-> <<>>, red_cards |-> <<>>]

\* The number of store accesses of getMatch after the row.
GetAccesses == 9

\* A mutation of getMatchAccess: the three lists are read before the counts.
getMatchAccessListsFirst(db, id, m, n) ==
  CASE n = 1 -> [m EXCEPT !.goals = fetchEvents(db.events.goals, id)]
    [] n = 2 -> [m EXCEPT !.yellow_cards = fetchEvents(db.events.yellow_cards, id)]
    [] n = 3 -> [m EXCEPT !.red_cards = fetchEvents(db.events.red_cards, id)]
    [] n = 4 -> [m EXCEPT !.homeGoals = CountEvents(db.events.goals, SqlInt(id), m.homeTeam)]
    [] n = 5 -> [m EXCEPT !.awayGoals = CountEvents(db.events.goals, SqlInt(id), m.awayTeam)]
    [] n = 6 -> [m EXCEPT !.homeYellowCardsCount =
                   CountEvents(db.events.yellow_cards, SqlInt(id), m.homeTeam)]
    [] n = 7 -> [m EXCEPT !.awayYellowCardsCount =
                   CountEvents(db.events.yellow_cards, SqlInt(id), m.awayTeam)]
    [] n = 8 -> [m EXCEPT !.homeRedCardsCount =
                   CountEvents(db.events.red_cards, SqlInt(id), m.homeTeam)]
    [] n = 9 -> [m EXCEPT !.awayRedCardsCount =
                   CountEvents(db.events.red_cards, SqlInt(id), m.awayTeam)]

\* The n-th store access of getMatch after the row: six counts by
\* (match_id, team) with the names the row had, then the three lists.
getMatchAccess(db, id, m, n) ==
  CASE n = 1 -> [m EXCEPT !.homeGoals = CountEvents(db.events.goals, SqlInt(id), m.homeTeam)]
    [] n = 2 -> [m EXCEPT !.awayGoals = CountEvents(db.events.goals, SqlInt(id), m.awayTeam)]
    [] n = 3 -> [m EXCEPT !.homeYellowCardsCount =
                   CountEvents(db.events.yellow_cards, SqlInt(id), m.homeTeam)]
    [] n = 4 -> [m EXCEPT !.awayYellowCardsCount =
                   CountEvents(db.events.yellow_cards, SqlInt(id), m.awayTeam)]
    [] n = 5 -> [m EXCEPT !.homeRedCardsCount =
                   CountEvents(db.events.red_cards, SqlInt(id), m.homeTeam)]
    [] n = 6 -> [m EXCEPT !.awayRedCardsCount =
                   CountEvents(db.events.red_cards, SqlInt(id), m.awayTeam)]
    [] n = 7 -> [m EXCEPT !.goals = fetchEvents(db.events.goals, id)]
    [] n = 8 -> [m EXCEPT !.yellow_cards = fetchEvents(db.events.yellow_cards, id)]
    [] n = 9 -> [m EXCEPT !.red_cards = fetchEvents(db.events.red_cards, id)]

\* The requests of the concurrent specification: events of the home team
\* for a seeded match and for an id that is not stored, Get and Delete of
\* the seeded match.
ConcRegisterIds == {"1", "5"}
ConcMatchIds == {"1"}

\* registerEvent up to its SELECT: the payload checks, the lookup and the
\* team check; a request that passes them is left before its INSERT.
ConcRegisterLookup ==
  /\ inflight.reg = Idle
  /\ StoredEvents < MaxEvents
  /\ \E id \in ConcRegisterIds, table \in Tables :
       IF registerEvent(Store, id, GoodEventBody, "none", table).resp.status = 200
       THEN /\ inflight' = [inflight EXCEPT !.reg =
                              [stage |-> "insert", id |-> id, body |-> GoodEventBody,
                               table |-> table]]
            /\ UNCHANGED <<matches, events, sqlite_sequence, resp>>
       ELSE Serve(registerEvent(Store, id, GoodEventBody, "none", table))

\* registerEvent from its INSERT on.
ConcRegisterInsert ==
  /\ inflight.reg # Idle
  /\ LET out == insertEvent(Store, inflight.reg.id, inflight.reg.body, inflight.reg.table)
     IN  /\ matches' = out.matches
         /\ events' = out.events
         /\ sqlite_sequence' = out.seq
         /\ resp' = out.resp
  /\ inflight' = [inflight EXCEPT !.reg = Idle]

\* deleteMatch is one statement.
ConcDeleteMatch == \E id \in ConcMatchIds : Serve(deleteMatch(Store, id, "none"))

\* getMatch up to the scan of the row.
ConcGetRow ==
  /\ inflight.get = Idle
  /\ \E id \in ConcMatchIds :
       IF SqlInt(id) \in DOMAIN matches
       THEN /\ inflight' = [inflight EXCEPT !.get =
                              [stage |-> 1, id |-> id, m |-> getMatchRow(Store, id)]]
            /\ UNCHANGED <<matches, events, sqlite_sequence, resp>>
       ELSE Serve(getMatch(Store, id, "none"))

\* The next store access of getMatch; after the last one it answers.
ConcGetAccess ==
  /\ inflight.get # Idle
  /\ LET g == inflight.get
         m == getMatchAccess(Store, g.id, g.m, g.stage)
     IN  IF g.stage < GetAccesses
         THEN /\ inflight' = [inflight EXCEPT !.get = [g EXCEPT !.stage = @ + 1, !.m = m]]
              /\ UNCHANGED resp
         ELSE /\ inflight' = [inflight EXCEPT !.get = Idle]
              /\ resp' = Response("getMatch", 200, m)
  /\ UNCHANGED <<matches, events, sqlite_sequence>>

NextConc ==
  \/ ConcRegisterLookup
  \/ ConcRegisterInsert
  \/ ConcDeleteMatch
  \/ ConcGetRow
  \/ ConcGetAccess

SpecConc == Init /\ [][NextConc]_vars

(***************************************************************************)
(* The list specification: List served while any of its statements may     *)
(* fail, over stores that events and deletes have changed.                 *)
(***************************************************************************)
ListPathIds == {"1", "2"}
ListEventBodies == {GoodEventBody, [GoodEventBody EXCEPT !.team = "Valencia"]}

ListGetMatches == \E dbErr \in ListErrs : Serve(getMatches(Store, dbErr))

ListRegisterEvent ==
  /\ StoredEvents < MaxEvents
  /\ \E id \in ListPathIds, b \in ListEventBodies, table \in Tables :
       Serve(registerEvent(Store, id, b, "none", table))

ListDeleteMatch == \E id \in ListPathIds : Serve(deleteMatch(Store, id, "none"))

NextList ==
  \/ ListGetMatches
  \/ ListRegisterEvent
  \/ ListDeleteMatch

SpecList == Init /\ [][NextList]_vars

(***************************************************************************)
(* The team-name specification: matches whose home and away team are the   *)
(* same text, two matches with the same team names, and teams renamed by   *)
(* Update after events were registered.                                    *)
(***************************************************************************)
\* A seeded match that has events, and the first match Create adds.
TeamPathIds == {"2", "5"}

SameTeamsBody ==
  [id |-> 7, homeTeam |-> "Valencia", awayTeam |-> "Valencia",
   matchDate |-> "2025-06-01", extraTime |-> "5:60"]

TeamMatchBodies == {SameTeamsBody, GoodMatchBody}

TeamEventBody == [GoodEventBody EXCEPT !.team = "Valencia"]

TeamsCreateMatch ==
  /\ NextRowId(matches, sqlite_sequence.matches) <= MaxMatchId
  /\ \E b \in TeamMatchBodies : Serve(createMatch(Store, b, "none"))

TeamsUpdateMatch ==
  \E id \in TeamPathIds, b \in TeamMatchBodies : Serve(updateMatch(Store, id, b, "none"))

TeamsDeleteMatch == \E id \in TeamPathIds : Serve(deleteMatch(Store, id, "none"))

TeamsRegisterEvent ==
  /\ StoredEvents < MaxEvents
  /\ \E id \in TeamPathIds, table \in Tables :
       Serve(registerEvent(Store, id, TeamEventBody, "none", table))

TeamsSetExtraTime ==
  \E id \in TeamPathIds : Serve(setExtraTime(Store, id, GoodExtraTimeBody, "none"))

TeamsGetMatch == \E id \in TeamPathIds : Serve(getMatch(Store, id, "none"))

NextTeams ==
  \/ TeamsCreateMatch
  \/ TeamsUpdateMatch
  \/ TeamsDeleteMatch
  \/ TeamsRegisterEvent
  \/ TeamsSetExtraTime
  \/ TeamsGetMatch

SpecTeams == Init /\ [][NextTeams]_vars

(***************************************************************************)
(* Definitions shared by the properties.                                   *)
(***************************************************************************)
\* The path segment a client writes for a match id.
Itoa(n) ==
  CASE n = 1 -> "1" [] n = 2 -> "2" [] n = 3 -> "3" [] n = 4 -> "4"
    [] n = 5 -> "5" [] n = 6 -> "6" [] n = 7 -> "7"

WellFormedMatchBodies == {b \in MatchBodies : b # InvalidJSON}

CompleteMatchBodies ==
  {b \in WellFormedMatchBodies :
     b.homeTeam # "" /\ b.awayTeam # "" /\ b.matchDate # ""}

\* The store is left as it is.
StoreUnchanged(out) ==
  /\ out.matches = matches
  /\ out.events = events
  /\ out.seq = sqlite_sequence

\* What Get answers, with a working store, in the store an outcome leaves.
Get(db, i) == getMatch(db, Itoa(i), "none").resp

\* What Get answers for a match that has these fields and no event.
FreshMatch(i, h, a, d) ==
  [id |-> i, homeTeam |-> h, awayTeam |-> a, matchDate |-> d, extraTime |-> "00:00",
   homeGoals |-> 0, awayGoals |-> 0, goals |-> <<>>,
   awayYellowCardsCount |-> 0, awayRedCardsCount |-> 0,
   homeYellowCardsCount |-> 0, homeRedCardsCount |-> 0,
   yellow_cards |-> <<>>, red_cards |-> <<>>]

(***************************************************************************)
(* C1.  For every non-empty (homeTeam, awayTeam, matchDate), in every      *)
(* reachable state, Create answers 200 with those fields, extraTime        *)
(* "00:00" and an id that no stored match has and that the store never     *)
(* assigned before, and stores that row; and right after a Create, Get on  *)
(* the returned id answers 200 with exactly those fields, extraTime        *)
(* "00:00", six counts of 0 and three empty event lists.                   *)
(***************************************************************************)
C1_CreateThenGet ==
  /\ \A b \in CompleteMatchBodies :
       LET out == createMatch(Store, b, "none")
           new == out.resp.body
       IN  /\ out.resp.status = 200
           /\ new.id \notin DOMAIN matches
           /\ new.id > sqlite_sequence.matches
           /\ new.homeTeam = b.homeTeam
           /\ new.awayTeam = b.awayTeam
           /\ new.matchDate = b.matchDate
           /\ new.extraTime = "00:00"
           /\ DOMAIN out.matches = DOMAIN matches \cup {new.id}
           /\ out.matches[new.id] = MatchRow(b.homeTeam, b.awayTeam, b.matchDate, "00:00")
           /\ Get(out, new.id).status = 200
           /\ Get(out, new.id).body =
                FreshMatch(new.id, b.homeTeam, b.awayTeam, b.matchDate)
  /\ (resp.op = "createMatch" /\ resp.status = 200) =>
       /\ Get(Store, resp.body.id).status = 200
       /\ Get(Store, resp.body.id).body =
            FreshMatch(resp.body.id, resp.body.homeTeam,
                       resp.body.awayTeam, resp.body.matchDate)

\* A match named like a seeded team, which has events elsewhere, was created.
C1_Witness ==
  /\ resp.op = "createMatch"
  /\ resp.status = 200
  /\ resp.body.homeTeam = "Real Madrid"
  /\ resp.body.id \in DOMAIN matches
  /\ CountEvents(events.goals, 1, "Real Madrid") > 0

(***************************************************************************)
(* C2.  Create and Update answer 400 whenever at least one of homeTeam,    *)
(* awayTeam, matchDate is empty, whatever the other two are, whatever the  *)
(* id and whether or not the store works, and then leave the store as it   *)
(* is.                                                                     *)
(***************************************************************************)
C2_EmptyFieldRejected ==
  \A b \in WellFormedMatchBodies \ CompleteMatchBodies, dbErr \in DbErrs :
    /\ createMatch(Store, b, dbErr).resp.status = 400
    /\ StoreUnchanged(createMatch(Store, b, dbErr))
    /\ \A id \in PathIds :
         /\ updateMatch(Store, id, b, dbErr).resp.status = 400
         /\ StoreUnchanged(updateMatch(Store, id, b, dbErr))

\* An Update was refused for a missing field while a created match is stored.
C2_Witness ==
  /\ resp.op = "updateMatch"
  /\ resp.status = 400
  /\ resp.body.error = "Todos los campos son obligatorios"
  /\ 5 \in DOMAIN matches

(***************************************************************************)
(* C3.  The time-format check accepts a text exactly when it is one or two *)
(* decimal digits, a colon and two digits whose value is 00-59.  On a      *)
(* stored match SetExtraTime answers 200 and stores the value for "05:00", *)
(* "12:59", "0:00", "99:59" and answers 400 and stores nothing for "5:60", *)
(* "100:00", "5", ""; and RegisterEvent with a team of the match and a     *)
(* player answers 200 exactly for the minutes that pass the same check.    *)
(***************************************************************************)
MinutesSeconds(t) ==
  LET c == Chars(t)
  IN  \E k \in {1, 2} :
        /\ Len(c) = k + 3
        /\ \A i \in 1..k : c[i] \in Digit09
        /\ c[k + 1] = ":"
        /\ c[k + 2] \in Digit09
        /\ c[k + 3] \in Digit09
        /\ 10 * DigitVal(c[k + 2]) + DigitVal(c[k + 3]) \in 0..59

C3_TimeFormat ==
  /\ \A t \in TimeValues : isValidTimeFormat(t) <=> MinutesSeconds(t)
  /\ \A id \in TimePathIds :
       SqlInt(id) \in DOMAIN matches =>
         /\ \A t \in {"05:00", "12:59", "0:00", "99:59"} :
              LET out == setExtraTime(Store, id, [extraTime |-> t], "none")
              IN  /\ out.resp.status = 200
                  /\ out.matches[SqlInt(id)].extra_time = t
         /\ \A t \in {"5:60", "100:00", "5", ""} :
              LET out == setExtraTime(Store, id, [extraTime |-> t], "none")
              IN  /\ out.resp.status = 400
                  /\ StoreUnchanged(out)
         /\ \A t \in TimeValues, table \in Tables :
              LET out == registerEvent(Store, id,
                                       [team |-> matches[SqlInt(id)].home_team,
                                        player |-> "Cristiano Ronaldo", minute |-> t],
                                       "none", table)
              IN  /\ out.resp.status = IF MinutesSeconds(t) THEN 200 ELSE 400
                  /\ MinutesSeconds(t) \/ StoreUnchanged(out)

\* "0:00" was stored as extra time and a later malformed value was refused.
C3_Witness ==
  /\ resp.op = "setExtraTime"
  /\ resp.status = 400
  /\ resp.body.error = "Formato de tiempo invalido. Usa MM:SS"
  /\ 1 \in DOMAIN matches
  /\ matches[1].extra_time = "0:00"

(***************************************************************************)
(* Event payloads and the parts of a Get answer, as the properties read    *)
(* them.                                                                   *)
(***************************************************************************)
EventPayloads == {b \in EventBodies : b # InvalidJSON}

PayloadComplete(b) == b.team # "" /\ b.player # "" /\ b.minute # ""

PayloadValid(b) == PayloadComplete(b) /\ MinutesSeconds(b.minute)

HomeCount(got, table) ==
  CASE table = "goals" -> got.homeGoals
    [] table = "yellow_cards" -> got.homeYellowCardsCount
    [] table = "red_cards" -> got.homeRedCardsCount

AwayCount(got, table) ==
  CASE table = "goals" -> got.awayGoals
    [] table = "yellow_cards" -> got.awayYellowCardsCount
    [] table = "red_cards" -> got.awayRedCardsCount

EventList(got, table) ==
  CASE table = "goals" -> got.goals
    [] table = "yellow_cards" -> got.yellow_cards
    [] table = "red_cards" -> got.red_cards

StoredIds == {id \in PathIds : SqlInt(id) \in DOMAIN matches}

MissingIds == {id \in PathIds : SqlInt(id) \notin DOMAIN matches}

(***************************************************************************)
(* C4.  With a working store, RegisterEvent of any kind on a stored match  *)
(* answers 400 and leaves the store as it is whenever the payload's team   *)
(* is not exactly the home or the away name the match has now, in          *)
(* particular when it differs only in case or is a team of another stored  *)
(* match.                                                                  *)
(***************************************************************************)
C4_ForeignTeamRejected ==
  \A id \in StoredIds, table \in Tables, b \in EventPayloads :
    (b.team # matches[SqlInt(id)].home_team /\ b.team # matches[SqlInt(id)].away_team) =>
      LET out == registerEvent(Store, id, b, "none", table)
      IN  /\ out.resp.status = 400
          /\ StoreUnchanged(out)

\* A team was refused for match 1 while "Valencia" plays in match 2 and
\* "real madrid" differs from the home team of match 1 only in case.
C4_Witness ==
  /\ resp.op = "registerEvent"
  /\ resp.status = 400
  /\ resp.body.error = "El equipo no corresponde al partido"
  /\ 1 \in DOMAIN matches
  /\ 5 \notin DOMAIN matches
  /\ matches[1].home_team = "Real Madrid"
  /\ matches[1].away_team = "Barcelona"
  /\ matches[2].away_team = "Valencia"

(***************************************************************************)
(* C5.  For a stored match with distinct team names, Get lists for each    *)
(* kind exactly the stored events of that kind that reference the match    *)
(* (with their id, team, player and minute, none of another match), its    *)
(* home and away counts are the numbers of listed events of the home and   *)
(* of the away team, and for a match still as seeded the two counts add up *)
(* to the length of the list.  A RegisterEvent of a kind for the home      *)
(* (away) team succeeds, raises the home (away) count of that kind by one, *)
(* appends its team, player and minute to the list of that kind and        *)
(* leaves the other count and the other kinds as they were.                *)
(***************************************************************************)
C5_CountsAndLists ==
  \A id \in StoredIds :
    LET i == SqlInt(id)
        row == matches[i]
        got == getMatch(Store, id, "none").resp.body
    IN  row.home_team # row.away_team =>
          \A table \in Tables :
            LET list == EventList(got, table)
                mine == {k \in DOMAIN events[table] : events[table][k].match_id = i}
            IN  /\ Len(list) = Cardinality(mine)
                /\ {list[n] : n \in 1..Len(list)} =
                     {[id |-> k, team |-> events[table][k].team,
                       player |-> events[table][k].player,
                       minute |-> events[table][k].minute] : k \in mine}
                /\ HomeCount(got, table) =
                     Cardinality({n \in 1..Len(list) : list[n].team = row.home_team})
                /\ AwayCount(got, table) =
                     Cardinality({n \in 1..Len(list) : list[n].team = row.away_team})
                /\ (i \in 1..Len(SeedMatches) /\ row = SeedMatches[i]) =>
                     HomeCount(got, table) + AwayCount(got, table) = Len(list)
                /\ \A b \in EventPayloads :
                     (PayloadValid(b) /\ b.team \in {row.home_team, row.away_team}) =>
                       LET out == registerEvent(Store, id, b, "none", table)
                           after == getMatch(out, id, "none").resp.body
                           grown == EventList(after, table)
                       IN  /\ out.resp.status = 200
                           /\ HomeCount(after, table) = HomeCount(got, table)
                                + (IF b.team = row.home_team THEN 1 ELSE 0)
                           /\ AwayCount(after, table) = AwayCount(got, table)
                                + (IF b.team = row.away_team THEN 1 ELSE 0)
                           /\ Len(grown) = Len(list) + 1
                           /\ SubSeq(grown, 1, Len(list)) = list
                           /\ grown[Len(grown)].team = b.team
                           /\ grown[Len(grown)].player = b.player
                           /\ grown[Len(grown)].minute = b.minute
                           /\ \A other \in Tables \ {table} :
                                /\ EventList(after, other) = EventList(got, other)
                                /\ HomeCount(after, other) = HomeCount(got, other)
                                /\ AwayCount(after, other) = AwayCount(got, other)

\* Get on match 1 after a second home goal: two home goals, one away goal,
\* three goals entries.
C5_Witness ==
  /\ resp.op = "getMatch"
  /\ resp.status = 200
  /\ resp.body.id = 1
  /\ resp.body.homeTeam = "Real Madrid"
  /\ resp.body.awayTeam = "Barcelona"
  /\ resp.body.homeGoals = 2
  /\ resp.body.awayGoals = 1
  /\ Len(resp.body.goals) = 3

(***************************************************************************)
(* C6.  As claimed: RegisterEvent of any kind addressed to an id that is   *)
(* not stored answers 404 for every payload, also one with an empty team,  *)
(* player or minute or with a malformed minute.                            *)
(***************************************************************************)
C6_NotFoundForEveryPayload ==
  \A id \in MissingIds, table \in Tables, b \in EventPayloads :
    registerEvent(Store, id, b, "none", table).resp.status = 404

(***************************************************************************)
(* C6, amended.  RegisterEvent of any kind addressed to an id that is not  *)
(* stored leaves the store as it is and answers 404 for every payload with *)
(* a non-empty team, player and minute and a well-formed minute; for a     *)
(* payload with an empty field or a malformed minute it answers 400.       *)
(***************************************************************************)
C6_NotFoundForValidPayload ==
  \A id \in MissingIds, table \in Tables, b \in EventPayloads :
    LET out == registerEvent(Store, id, b, "none", table)
    IN  /\ out.resp.status = IF PayloadValid(b) THEN 404 ELSE 400
        /\ StoreUnchanged(out)

\* A registration was answered 404 when no match a path can name is stored.
C6_Witness ==
  /\ resp.op = "registerEvent"
  /\ resp.status = 404
  /\ StoredIds = {}
  /\ sqlite_sequence.matches >= 5

(***************************************************************************)
(* C7.  Get answers 404 for every id that is not stored, whether or not    *)
(* the store works; a successful Get or List only shows stored matches and *)
(* List shows all of them; Delete of an id leaves it not stored, Get on it *)
(* 404 and List without it; and an id that was assigned and is no longer   *)
(* stored is never stored again, so this stays so until the end.           *)
(***************************************************************************)
ListedIds(r) == {r.body.list[n].id : n \in 1..Len(r.body.list)}

C7_State ==
  /\ DOMAIN matches \subseteq 1..sqlite_sequence.matches
  /\ \A id \in MissingIds, dbErr \in DbErrs :
       getMatch(Store, id, dbErr).resp.status = 404
  /\ ListedIds(getMatches(Store, "none").resp) = DOMAIN matches
  /\ Len(getMatches(Store, "none").resp.body.list) = Cardinality(DOMAIN matches)
  /\ (resp.op = "getMatch" /\ resp.status = 200) => resp.body.id \in DOMAIN matches
  /\ (resp.op = "getMatches" /\ resp.status = 200) => ListedIds(resp) = DOMAIN matches
  /\ \A id \in PathIds :
       LET out == deleteMatch(Store, id, "none")
       IN  /\ out.resp.status = 204
           /\ SqlInt(id) \notin DOMAIN out.matches
           /\ getMatch(out, id, "none").resp.status = 404
           /\ SqlInt(id) \notin ListedIds(getMatches(out, "none").resp)

C7_Step ==
  \A k \in 1..sqlite_sequence.matches :
    k \notin DOMAIN matches => k \notin DOMAIN matches'

C7_DeletedStaysGone == []C7_State /\ [][C7_Step]_vars

\* Matches 1 and 5 were deleted and a later Get was answered 404.
C7_Witness ==
  /\ resp.op = "getMatch"
  /\ resp.status = 404
  /\ sqlite_sequence.matches >= 5
  /\ 1 \notin DOMAIN matches
  /\ 5 \notin DOMAIN matches

(***************************************************************************)
(* C8.  As documented in README.md and llms.txt: on a stored match,        *)
(* registering a goal, a yellow card or a red card for the home or away    *)
(* team with the minute "45", "30" or "88" answers 200 and appends the     *)
(* event.                                                                  *)
(***************************************************************************)
C8_DocumentedPayloadsAccepted ==
  \A id \in StoredIds, table \in Tables, minute \in {"45", "30", "88"} :
    \A team \in {matches[SqlInt(id)].home_team, matches[SqlInt(id)].away_team} :
      LET out == registerEvent(Store, id,
                               [team |-> team, player |-> "Cristiano Ronaldo",
                                minute |-> minute], "none", table)
      IN  /\ out.resp.status = 200
          /\ Cardinality(DOMAIN out.events[table]) = Cardinality(DOMAIN events[table]) + 1

(***************************************************************************)
(* C9.  With a working store, Update of a stored match with non-empty      *)
(* fields answers 200 and changes only that match's homeTeam, awayTeam and *)
(* matchDate: the match keeps its id and extraTime, every event row of     *)
(* every kind (those of this match and their team names included), the     *)
(* AUTOINCREMENT bookkeeping and every other match are as they were.       *)
(***************************************************************************)
C9_UpdateFrame ==
  \A id \in StoredIds, b \in CompleteMatchBodies :
    LET i == SqlInt(id)
        out == updateMatch(Store, id, b, "none")
        before == Get(Store, i).body
        after == Get(out, i).body
    IN  /\ out.resp.status = 200
        /\ out.events = events
        /\ out.seq = sqlite_sequence
        /\ DOMAIN out.matches = DOMAIN matches
        /\ out.matches[i] =
             MatchRow(b.homeTeam, b.awayTeam, b.matchDate, matches[i].extra_time)
        /\ \A k \in DOMAIN matches \ {i} : out.matches[k] = matches[k]
        /\ after.id = i
        /\ after.extraTime = before.extraTime
        /\ \A table \in Tables : EventList(after, table) = EventList(before, table)

\* Match 1 was renamed; its seeded goal still names "Real Madrid" and its
\* extra time is not the one the request body carried.
C9_Witness ==
  /\ resp.op = "updateMatch"
  /\ resp.status = 200
  /\ resp.body.id = 1
  /\ resp.body.extraTime = "5:60"
  /\ 1 \in DOMAIN matches
  /\ matches[1].away_team = "Valencia"
  /\ matches[1].extra_time = "05:00"
  /\ events.goals[1] = SeedGoals[1]

(***************************************************************************)
(* C10.  With a working store, Update with non-empty fields on an id that  *)
(* is not stored answers 200 with the given fields and, for a numeric id,  *)
(* that id; the store is as it was: no match is added and Get on that id   *)
(* still answers 404.                                                      *)
(***************************************************************************)
NumericPathIds == PathIds \ {"abc"}

C10_UpdateMissingId ==
  \A id \in MissingIds, b \in CompleteMatchBodies :
    LET out == updateMatch(Store, id, b, "none")
    IN  /\ out.resp.status = 200
        /\ out.resp.body.homeTeam = b.homeTeam
        /\ out.resp.body.awayTeam = b.awayTeam
        /\ out.resp.body.matchDate = b.matchDate
        /\ id \in NumericPathIds => Itoa(out.resp.body.id) = id
        /\ StoreUnchanged(out)
        /\ getMatch(out, id, "none").resp.status = 404

\* An Update of id 5 was answered 200 while no match 5 is stored.
C10_Witness ==
  /\ resp.op = "updateMatch"
  /\ resp.status = 200
  /\ resp.body.id = 5
  /\ 5 \notin DOMAIN matches

(***************************************************************************)
(* C11.  With a working store, Delete of a stored match removes that match *)
(* row and nothing else: every goal, yellow-card and red-card row is       *)
(* stored as before, those that reference the deleted id included, the     *)
(* AUTOINCREMENT bookkeeping is as it was and every other match is stored  *)
(* unchanged.  Every Delete step taken removes at most one match row and   *)
(* changes nothing else.                                                   *)
(***************************************************************************)
C11_State ==
  \A id \in StoredIds :
    LET i == SqlInt(id)
        out == deleteMatch(Store, id, "none")
    IN  /\ DOMAIN out.matches = DOMAIN matches \ {i}
        /\ \A k \in DOMAIN matches \ {i} : out.matches[k] = matches[k]
        /\ out.seq = sqlite_sequence
        /\ \A table \in Tables :
             /\ DOMAIN out.events[table] = DOMAIN events[table]
             /\ \A k \in DOMAIN events[table] : out.events[table][k] = events[table][k]

C11_Step ==
  resp'.op = "deleteMatch" =>
    /\ events' = events
    /\ sqlite_sequence' = sqlite_sequence
    /\ DOMAIN matches' \subseteq DOMAIN matches
    /\ Cardinality(DOMAIN matches \ DOMAIN matches') <= 1
    /\ \A k \in DOMAIN matches' : matches'[k] = matches[k]

C11_DeleteFrame == []C11_State /\ [][C11_Step]_vars

\* Match 1 was deleted; its two seeded goals and its two seeded yellow cards
\* are stored, and so is match 2.
C11_Witness ==
  /\ resp.op = "deleteMatch"
  /\ resp.status = 204
  /\ 1 \notin DOMAIN matches
  /\ events.goals[1] = SeedGoals[1]
  /\ events.goals[2] = SeedGoals[2]
  /\ events.yellow_cards[1].match_id = 1
  /\ events.yellow_cards[2].match_id = 1
  /\ matches[2] = SeedMatches[2]

(***************************************************************************)
(* C12.  With a working store, Delete on an id that is not stored answers  *)
(* 204 with no content and leaves the store as it is; and for every id,    *)
(* Delete followed by Delete of the same id leaves the store and the       *)
(* answer of the first Delete.                                             *)
(***************************************************************************)
C12_DeleteIdempotent ==
  /\ \A id \in MissingIds :
       LET out == deleteMatch(Store, id, "none")
       IN  /\ out.resp = Response("deleteMatch", 204, [empty |-> TRUE])
           /\ StoreUnchanged(out)
  /\ \A id \in PathIds :
       LET once == deleteMatch(Store, id, "none")
           twice == deleteMatch(once, id, "none")
       IN  twice = once

\* A Delete was answered 204 while every match ever created is stored: it
\* addressed an id that is not stored.
C12_Witness ==
  /\ resp.op = "deleteMatch"
  /\ resp.status = 204
  /\ sqlite_sequence.matches = 5
  /\ DOMAIN matches = 1..5

(***************************************************************************)
(* C13.  As claimed: SetExtraTime addressed to an id that is not stored    *)
(* answers 404 for every value, valid, malformed or empty, and leaves the  *)
(* store as it is.                                                         *)
(***************************************************************************)
C13_NotFoundForEveryValue ==
  \A id \in MissingIds, t \in TimeValues :
    LET out == setExtraTime(Store, id, [extraTime |-> t], "none")
    IN  /\ out.resp.status = 404
        /\ StoreUnchanged(out)

(***************************************************************************)
(* C13, amended.  SetExtraTime addressed to an id that is not stored       *)
(* leaves the store as it is and answers 404 for every non-empty value,    *)
(* valid or malformed; for the empty value it answers 400.                 *)
(***************************************************************************)
C13_NotFoundForNonEmptyValue ==
  \A id \in MissingIds, t \in TimeValues :
    LET out == setExtraTime(Store, id, [extraTime |-> t], "none")
    IN  /\ out.resp.status = IF t = "" THEN 400 ELSE 404
        /\ StoreUnchanged(out)

\* A SetExtraTime was answered 404 after match 1 had its extra time set.
C13_Witness ==
  /\ resp.op = "setExtraTime"
  /\ resp.status = 404
  /\ resp.body.error = "Partido no encontrado"
  /\ matches[1].extra_time = "99:59"

(***************************************************************************)
(* C14.  A SetExtraTime that answers 200 stores the value as the extra     *)
(* time of the addressed match and changes nothing else: the match keeps   *)
(* its teams and date, Get shows it under the same id, every event row,    *)
(* the AUTOINCREMENT bookkeeping and every other match are as they were.   *)
(* A SetExtraTime that answers anything else leaves the store as it is.    *)
(* Every SetExtraTime step taken changes at most the extra time of one     *)
(* match, and nothing when it does not answer 200.                         *)
(***************************************************************************)
C14_State ==
  \A id \in PathIds, rq \in ExtraTimeRequests :
    LET out == setExtraTime(Store, id, rq[1], rq[2])
        i == SqlInt(id)
    IN  IF out.resp.status = 200
        THEN /\ i \in DOMAIN matches
             /\ DOMAIN out.matches = DOMAIN matches
             /\ out.matches[i] = [matches[i] EXCEPT !.extra_time = rq[1].extraTime]
             /\ \A k \in DOMAIN matches \ {i} : out.matches[k] = matches[k]
             /\ out.events = events
             /\ out.seq = sqlite_sequence
             /\ Get(out, i).body.id = i
             /\ Get(out, i).body.extraTime = rq[1].extraTime
        ELSE StoreUnchanged(out)

C14_Step ==
  resp'.op = "setExtraTime" =>
    IF resp'.status = 200
    THEN /\ events' = events
         /\ sqlite_sequence' = sqlite_sequence
         /\ DOMAIN matches' = DOMAIN matches
         /\ \A k \in DOMAIN matches :
              matches'[k] = [matches[k] EXCEPT !.extra_time = matches'[k].extra_time]
         /\ Cardinality({k \in DOMAIN matches :
                           matches'[k].extra_time # matches[k].extra_time}) <= 1
    ELSE UNCHANGED <<matches, events, sqlite_sequence>>

C14_SetExtraTimeFrame == []C14_State /\ [][C14_Step]_vars

\* The extra time of the created match 5 was set while match 1 keeps its
\* seeded one.
C14_Witness ==
  /\ resp.op = "setExtraTime"
  /\ resp.status = 200
  /\ 5 \in DOMAIN matches
  /\ matches[5].extra_time = "12:59"
  /\ 1 \in DOMAIN matches
  /\ matches[1].extra_time = SeedMatches[1].extra_time

(***************************************************************************)
(* C15.  With a working store, List answers 200 with exactly one entry for *)
(* every stored match and none for another id; each entry carries the      *)
(* id, teams, date and extra time of its match and the six counts that Get *)
(* answers for that id in the same state; and a List that was just         *)
(* answered is that answer.                                                *)
(***************************************************************************)
Counts(m) ==
  <<m.homeGoals, m.awayGoals, m.homeYellowCardsCount, m.awayYellowCardsCount,
    m.homeRedCardsCount, m.awayRedCardsCount>>

C15_ListAgreesWithGet ==
  LET r == getMatches(Store, "none").resp
      list == r.body.list
  IN  /\ r.status = 200
      /\ Len(list) = Cardinality(DOMAIN matches)
      /\ {list[n].id : n \in 1..Len(list)} = DOMAIN matches
      /\ \A n \in 1..Len(list) :
           LET e == list[n]
               got == Get(Store, e.id)
           IN  /\ got.status = 200
               /\ e.homeTeam = matches[e.id].home_team
               /\ e.awayTeam = matches[e.id].away_team
               /\ e.matchDate = matches[e.id].match_date
               /\ e.extraTime = matches[e.id].extra_time
               /\ Counts(e) = Counts(got.body)
      /\ (resp.op = "getMatches" /\ resp.status = 200) => resp = r

\* A List of five matches was answered after a second home goal of match 1.
C15_Witness ==
  /\ resp.op = "getMatches"
  /\ resp.status = 200
  /\ Len(resp.body.list) = 5
  /\ resp.body.list[1].id = 1
  /\ resp.body.list[1].homeGoals = 2
  /\ resp.body.list[1].awayGoals = 1
  /\ resp.body.list[4].homeRedCardsCount = 1

(***************************************************************************)
(* C16.  With a working store, Create with the homeTeam, awayTeam and      *)
(* matchDate of a stored match answers 200 with an id that differs from    *)
(* that match's id and from every stored id, stores a second row with the  *)
(* same three fields and leaves every stored match as it was.              *)
(***************************************************************************)
C16_NoUniqueness ==
  \A k \in DOMAIN matches :
    LET b == [id |-> k, homeTeam |-> matches[k].home_team,
              awayTeam |-> matches[k].away_team,
              matchDate |-> matches[k].match_date,
              extraTime |-> matches[k].extra_time]
        out == createMatch(Store, b, "none")
        new == out.resp.body.id
    IN  /\ out.resp.status = 200
        /\ new # k
        /\ new \notin DOMAIN matches
        /\ DOMAIN out.matches = DOMAIN matches \cup {new}
        /\ \A j \in DOMAIN matches : out.matches[j] = matches[j]
        /\ out.matches[new].home_team = matches[k].home_team
        /\ out.matches[new].away_team = matches[k].away_team
        /\ out.matches[new].match_date = matches[k].match_date

\* A match was created with the teams and date that match 1 has.
C16_Witness ==
  /\ resp.op = "createMatch"
  /\ resp.status = 200
  /\ resp.body.id = 5
  /\ 1 \in DOMAIN matches
  /\ 5 \in DOMAIN matches
  /\ matches[1].home_team = matches[5].home_team
  /\ matches[1].away_team = matches[5].away_team
  /\ matches[1].match_date = matches[5].match_date

(***************************************************************************)
(* C17.  With a working store, RegisterEvent of any kind answers, for      *)
(* every id, stored or not: 400 "Todos los campos son requeridos" when     *)
(* the team, player or minute is empty; else 400 "Formato de tiempo        *)
(* invalido" when the minute fails the time-format check; else 404 when    *)
(* the id is not stored, whatever the team; else 400 "El equipo no         *)
(* corresponde al partido" when the team is neither team of the match.     *)
(***************************************************************************)
C17_CheckOrder ==
  \A id \in PathIds, table \in Tables, b \in EventPayloads :
    LET out == registerEvent(Store, id, b, "none", table)
        stored == SqlInt(id) \in DOMAIN matches
    IN  IF ~PayloadComplete(b)
        THEN out.resp = Error("registerEvent", 400, "Todos los campos son requeridos")
        ELSE IF ~MinutesSeconds(b.minute)
        THEN out.resp = Error("registerEvent", 400, "Formato de tiempo invalido. Usa MM:SS")
        ELSE IF ~stored
        THEN out.resp = Error("registerEvent", 404, "Partido no encontrado")
        ELSE (b.team \notin {matches[SqlInt(id)].home_team, matches[SqlInt(id)].away_team})
               => out.resp = Error("registerEvent", 400, "El equipo no corresponde al partido")

\* A payload with an empty field was refused while no match that a path can
\* name is stored.
C17_Witness ==
  /\ resp.op = "registerEvent"
  /\ resp.status = 400
  /\ resp.body.error = "Todos los campos son requeridos"
  /\ StoredIds = {}

(***************************************************************************)
(* C18.  With a working store, a RegisterEvent of a kind that answers 200  *)
(* adds exactly one row to the table of that kind, under an id no row of   *)
(* the table has, with the addressed match id and the payload's team,      *)
(* player and minute; the rows the table had, the two other tables and     *)
(* every match row are as they were.  One that answers 400 or 404 leaves   *)
(* the store as it is.  Every RegisterEvent step taken changes the store   *)
(* in no other way.                                                        *)
(***************************************************************************)
C18_State ==
  \A id \in PathIds, table \in Tables, b \in EventPayloads :
    LET out == registerEvent(Store, id, b, "none", table)
        new == DOMAIN out.events[table] \ DOMAIN events[table]
    IN  IF out.resp.status = 200
        THEN /\ out.matches = matches
             /\ out.seq.matches = sqlite_sequence.matches
             /\ \A other \in Tables \ {table} :
                  /\ out.events[other] = events[other]
                  /\ out.seq[other] = sqlite_sequence[other]
             /\ DOMAIN events[table] \subseteq DOMAIN out.events[table]
             /\ \A k \in DOMAIN events[table] : out.events[table][k] = events[table][k]
             /\ Cardinality(new) = 1
             /\ \A k \in new :
                  out.events[table][k] =
                    [match_id |-> SqlInt(id), team |-> b.team,
                     player |-> b.player, minute |-> b.minute]
        ELSE /\ out.resp.status \in {400, 404}
             /\ StoreUnchanged(out)

C18_Step ==
  resp'.op = "registerEvent" =>
    IF resp'.status = 200
    THEN /\ matches' = matches
         /\ StoredEvents' = StoredEvents + 1
         /\ \A table \in Tables :
              \A k \in DOMAIN events[table] :
                /\ k \in DOMAIN events'[table]
                /\ events'[table][k] = events[table][k]
    ELSE UNCHANGED <<matches, events, sqlite_sequence>>

C18_RegisterFrame == []C18_State /\ [][C18_Step]_vars

\* A red card of the away team of the created match 5 was registered.
C18_Witness ==
  /\ resp.op = "registerEvent"
  /\ resp.status = 200
  /\ resp.body.message = "Tarjeta roja registrada correctamente"
  /\ 3 \in DOMAIN events.red_cards
  /\ events.red_cards[3] =
       [match_id |-> 5, team |-> "Valencia", player |-> "Cristiano Ronaldo",
        minute |-> "12:34"]
  /\ events.red_cards[1] = SeedRedCards[1]

(***************************************************************************)
(* C19.  Events are append-only: every step of every operation keeps each  *)
(* stored event row in its table under the same id with the same match id, *)
(* team, player and minute.                                                *)
(***************************************************************************)
C19_Step ==
  \A table \in Tables :
    \A k \in DOMAIN events[table] :
      /\ k \in DOMAIN events'[table]
      /\ events'[table][k] = events[table][k]

C19_AppendOnly == [][C19_Step]_vars

\* A goal registered for "Valencia" on the renamed match 1 is stored, with
\* the seeded goal of "Barcelona", after match 1 was deleted.
C19_Witness ==
  /\ resp.op = "deleteMatch"
  /\ 1 \notin DOMAIN matches
  /\ 5 \in DOMAIN events.goals
  /\ events.goals[5].match_id = 1
  /\ events.goals[5].team = "Valencia"
  /\ events.goals[2].team = "Barcelona"

(***************************************************************************)
(* C20.  The id of a match is assigned by Create and never changes.  In    *)
(* every state List shows pairwise distinct ids, and an Update of a stored *)
(* match whose body carries another id answers with the path id, keeps the *)
(* set of stored ids and leaves Get on the path id answering that id.      *)
(* Every step keeps the stored ids, except that a Create adds the id it    *)
(* answers, which was never assigned before, and a Delete may remove ids.  *)
(***************************************************************************)
C20_State ==
  /\ LET list == getMatches(Store, "none").resp.body.list
     IN  \A m, n \in 1..Len(list) : m # n => list[m].id # list[n].id
  /\ \A id \in StoredIds, b \in CompleteMatchBodies :
       LET i == SqlInt(id)
           out == updateMatch(Store, id, b, "none")
       IN  /\ b.id # i
           /\ out.resp.body.id = i
           /\ DOMAIN out.matches = DOMAIN matches
           /\ Get(out, i).status = 200
           /\ Get(out, i).body.id = i
           /\ Get(out, b.id).status = 404

C20_Step ==
  CASE resp'.op = "createMatch" /\ resp'.status = 200 ->
         /\ resp'.body.id > sqlite_sequence.matches
         /\ DOMAIN matches' = DOMAIN matches \cup {resp'.body.id}
    [] resp'.op = "deleteMatch" -> DOMAIN matches' \subseteq DOMAIN matches
    [] OTHER -> DOMAIN matches' = DOMAIN matches

C20_IdImmutable == []C20_State /\ [][C20_Step]_vars

\* The created match 5 was updated with a body that carries the id 7.
C20_Witness ==
  /\ resp.op = "updateMatch"
  /\ resp.status = 200
  /\ resp.body.id = 5
  /\ 5 \in DOMAIN matches
  /\ 7 \notin DOMAIN matches
  /\ sqlite_sequence.matches = 5

(***************************************************************************)
(* C21.  Under concurrent requests, the INSERT of a RegisterEvent that     *)
(* passed its match lookup succeeds whether or not the match is still      *)
(* stored: it answers 200 and stores the event under the id it looked up,  *)
(* so that a Delete of that match between the lookup and the INSERT leaves *)
(* a stored event whose match id is not stored while RegisterEvent answers *)
(* success.                                                                *)
(***************************************************************************)
C21_State ==
  inflight.reg # Idle =>
    LET r == inflight.reg
        out == insertEvent(Store, r.id, r.body, r.table)
        new == DOMAIN out.events[r.table] \ DOMAIN events[r.table]
    IN  /\ out.resp.status = 200
        /\ out.matches = matches
        /\ Cardinality(new) = 1
        /\ \A k \in new : out.events[r.table][k].match_id = SqlInt(r.id)

C21_Step ==
  (inflight.reg # Idle /\ inflight'.reg = Idle) =>
    /\ resp' = Response("registerEvent", 200,
                        [message |-> EventMessage(inflight.reg.table)])
    /\ matches' = matches
    /\ StoredEvents' = StoredEvents + 1
    /\ \E k \in DOMAIN events'[inflight.reg.table] :
         /\ k \notin DOMAIN events[inflight.reg.table]
         /\ events'[inflight.reg.table][k].match_id = SqlInt(inflight.reg.id)

C21_OrphanOnRace == []C21_State /\ [][C21_Step]_vars

\* The last answer is the 200 of a goal registration, and the goal it
\* stored references match 1, which is not stored.
C21_Witness ==
  /\ resp = Response("registerEvent", 200, [message |-> "Gol registrado correctamente"])
  /\ inflight.reg = Idle
  /\ 1 \notin DOMAIN matches
  /\ 5 \in DOMAIN events.goals
  /\ events.goals[5].match_id = 1
  /\ sqlite_sequence.goals = 5

(***************************************************************************)
(* C28.  Get is not an atomic snapshot.  Run without interleaving, its ten *)
(* store accesses give the answer of Get; under concurrent requests every  *)
(* count of a 200 answer is at most the number of entries of that team in  *)
(* the list of that kind, because the counts are read before the lists and *)
(* events are only added, and it is smaller when a RegisterEvent for the   *)
(* match commits in between: the answer then lists an event that its own   *)
(* count does not include.                                                 *)
(***************************************************************************)
RECURSIVE GetFrom(_, _, _, _)
GetFrom(db, id, m, n) ==
  IF n > GetAccesses THEN m
  ELSE GetFrom(db, id, getMatchAccess(db, id, m, n), n + 1)

Listed(list, team) == Cardinality({n \in 1..Len(list) : list[n].team = team})

C28_GetNotAtomic ==
  /\ \A id \in ConcMatchIds :
       SqlInt(id) \in DOMAIN matches =>
         GetFrom(Store, id, getMatchRow(Store, id), 1) =
           getMatch(Store, id, "none").resp.body
  /\ (resp.op = "getMatch" /\ resp.status = 200) =>
       \A table \in Tables :
         /\ HomeCount(resp.body, table)
              <= Listed(EventList(resp.body, table), resp.body.homeTeam)
         /\ AwayCount(resp.body, table)
              <= Listed(EventList(resp.body, table), resp.body.awayTeam)

\* A Get of match 1 answered one home goal and listed two goals of the home
\* team.
C28_Witness ==
  /\ resp.op = "getMatch"
  /\ resp.status = 200
  /\ resp.body.id = 1
  /\ resp.body.homeGoals = 1
  /\ Len(resp.body.goals) = 3
  /\ resp.body.goals[3].team = resp.body.homeTeam
  /\ Listed(resp.body.goals, resp.body.homeTeam) = 2

(***************************************************************************)
(* C22.  As claimed: List answers 500 whenever one of its statements       *)
(* fails (the SELECT, the scan of a row, a COUNT query, the iteration   *)
(* over the rows), and a 200 answer of List is the full list with the      *)
(* counts of the store.                                                    *)
(***************************************************************************)
C22_ListFailsOnAnyError ==
  /\ \A dbErr \in ListErrs \ {"none"} :
       DOMAIN matches # {} => getMatches(Store, dbErr).resp.status = 500
  /\ (resp.op = "getMatches" /\ resp.status = 200) =>
       resp = getMatches(Store, "none").resp

(***************************************************************************)
(* C23.  In every reachable state the extra_time of every stored match     *)
(* is minutes:seconds with seconds below 60.  A step stores "00:00" in the *)
(* match it creates, and changes the extra_time of a stored match only in  *)
(* a SetExtraTime that answers 200; an Update whose body carries the       *)
(* malformed extraTime "5:60" answers with it and stores none of it.       *)
(***************************************************************************)
C23_State == \A i \in DOMAIN matches : MinutesSeconds(matches[i].extra_time)

C23_Step ==
  \A i \in DOMAIN matches' :
    /\ i \notin DOMAIN matches =>
         resp'.op = "createMatch" /\ matches'[i].extra_time = "00:00"
    /\ (i \in DOMAIN matches /\ matches'[i].extra_time # matches[i].extra_time) =>
         /\ resp' = Response("setExtraTime", 200,
                             [message |-> "Tiempo extra actualizado correctamente"])
         /\ MinutesSeconds(matches'[i].extra_time)

C23_ExtraTimeWellFormed == []C23_State /\ [][C23_Step]_vars

C23_Witness ==
  /\ resp.op = "updateMatch" /\ resp.status = 200
  /\ resp.body.id = 5 /\ resp.body.extraTime = "5:60"
  /\ 5 \in DOMAIN matches /\ matches[5].extra_time = "12:59"
  /\ 1 \in DOMAIN matches /\ matches[1].extra_time = "12:59"

(***************************************************************************)
(* C24.  In every reachable state every stored goal, yellow card and red   *)
(* card has a non-empty team, a non-empty player and a minute that is      *)
(* minutes:seconds with seconds below 60, and every stored match has a     *)
(* non-empty home team, away team and date.  A request answered 400        *)
(* changes nothing in the store.                                           *)
(***************************************************************************)
C24_State ==
  /\ \A t \in Tables :
       \A k \in DOMAIN events[t] :
         /\ events[t][k].team # ""
         /\ events[t][k].player # ""
         /\ MinutesSeconds(events[t][k].minute)
  /\ \A i \in DOMAIN matches :
       /\ matches[i].home_team # ""
       /\ matches[i].away_team # ""
       /\ matches[i].match_date # ""

C24_Step ==
  resp'.status = 400 =>
    /\ matches' = matches
    /\ events' = events
    /\ sqlite_sequence' = sqlite_sequence

C24_StoredFieldsPresent == []C24_State /\ [][C24_Step]_vars

C24_Witness ==
  /\ resp = Response("registerEvent", 200, [message |-> EventMessage("red_cards")])
  /\ 3 \in DOMAIN events.red_cards
  /\ events.red_cards[3] = EventRow(5, "Valencia", "Cristiano Ronaldo", "12:34")
  /\ 5 \in DOMAIN matches
  /\ matches[5] = MatchRow("Real Madrid", "Valencia", "2025-06-01", "00:00")
  /\ 1 \in DOMAIN matches
  /\ matches[1] = MatchRow("Real Madrid", "Valencia", "2025-06-01", "05:00")

(***************************************************************************)
(* C25.  sqlite_sequence.matches bounds every id a match has ever had and  *)
(* every match_id of a stored event, and never decreases.  In every        *)
(* reachable state a Create of a complete body answers an id above it,     *)
(* which no stored match and no stored event names, and Get on that id     *)
(* answers the new fields with six counts of 0 and three empty lists,      *)
(* whatever events deleted matches left behind.  A step adds a match only  *)
(* under an id above the sqlite_sequence.matches it started from.          *)
(***************************************************************************)
C25_State ==
  /\ DOMAIN matches \subseteq 1..sqlite_sequence.matches
  /\ \A t \in Tables :
       \A k \in DOMAIN events[t] : events[t][k].match_id \in 1..sqlite_sequence.matches
  /\ \A b \in CompleteMatchBodies :
       LET out == createMatch(Store, b, "none")
           id == out.resp.body.id
       IN  /\ out.resp.status = 200
           /\ id > sqlite_sequence.matches
           /\ id \notin DOMAIN matches
           /\ \A t \in Tables :
                \A k \in DOMAIN out.events[t] : out.events[t][k].match_id # id
           /\ Get(out, id).status = 200
           /\ Get(out, id).body = FreshMatch(id, b.homeTeam, b.awayTeam, b.matchDate)

C25_Step ==
  /\ sqlite_sequence'.matches >= sqlite_sequence.matches
  /\ \A i \in DOMAIN matches' \ DOMAIN matches :
       /\ i > sqlite_sequence.matches
       /\ \A t \in Tables :
            \A k \in DOMAIN events'[t] : events'[t][k].match_id # i

C25_IdNeverReused == []C25_State /\ [][C25_Step]_vars

\* Match 1 was deleted, its events stayed, and a Create was answered with 5.
C25_Witness ==
  /\ resp.op = "createMatch" /\ resp.status = 200 /\ resp.body.id = 5
  /\ 5 \in DOMAIN matches
  /\ 1 \notin DOMAIN matches
  /\ 1 \in DOMAIN events.goals /\ events.goals[1].match_id = 1
  /\ 1 \in DOMAIN events.yellow_cards /\ events.yellow_cards[1].match_id = 1

(***************************************************************************)
(* C26.  As claimed: for every stored match and every kind, the home       *)
(* count plus the away count that Get reports equals the length of that    *)
(* kind's list in the same answer.                                         *)
(***************************************************************************)
StoredTeamIds == {id \in TeamPathIds : SqlInt(id) \in DOMAIN matches}

C27_SameTeamCountedTwice ==
  /\ LET out == createMatch(Store, SameTeamsBody, "none")
     IN  /\ out.resp.status = 200
         /\ out.matches[out.resp.body.id].home_team = "Valencia"
         /\ out.matches[out.resp.body.id].away_team = "Valencia"
  /\ \A id \in StoredTeamIds :
       LET out == updateMatch(Store, id, SameTeamsBody, "none")
       IN  /\ out.resp.status = 200
           /\ out.matches[SqlInt(id)].home_team = "Valencia"
           /\ out.matches[SqlInt(id)].away_team = "Valencia"
  /\ \A id \in StoredTeamIds :
       matches[SqlInt(id)].home_team = matches[SqlInt(id)].away_team =>
         \A table \in Tables :
           LET got == getMatch(Store, id, "none").resp.body
               p == [TeamEventBody EXCEPT !.team = matches[SqlInt(id)].home_team]
               out == registerEvent(Store, id, p, "none", table)
               after == getMatch(out, id, "none").resp.body
           IN  /\ HomeCount(got, table) = Listed(EventList(got, table), got.homeTeam)
               /\ AwayCount(got, table) = HomeCount(got, table)
               /\ out.resp.status = 200
               /\ HomeCount(after, table) = HomeCount(got, table) + 1
               /\ AwayCount(after, table) = AwayCount(got, table) + 1
               /\ Len(EventList(after, table)) = Len(EventList(got, table)) + 1

\* Match 5 was created as Valencia against Valencia and has one goal.
C27_Witness ==
  /\ resp.op = "getMatch" /\ resp.status = 200 /\ resp.body.id = 5
  /\ resp.body.homeTeam = "Valencia" /\ resp.body.awayTeam = "Valencia"
  /\ resp.body.homeGoals = 1 /\ resp.body.awayGoals = 1
  /\ Len(resp.body.goals) = 1

(***************************************************************************)
(* C29.  In every reachable state, for every path id A and every stored    *)
(* match B other than A, Get on B answers the same fields, lists and       *)
(* counts after an Update, a Delete, a SetExtraTime or a RegisterEvent of  *)
(* any kind on A as before it, also when A and B have the same team names. *)
(***************************************************************************)
C29_OtherMatchesUntouched ==
  \A a \in TeamPathIds :
    \A b \in DOMAIN matches \ {SqlInt(a)} :
      LET before == Get(Store, b)
      IN  /\ \A m \in TeamMatchBodies : Get(updateMatch(Store, a, m, "none"), b) = before
          /\ Get(deleteMatch(Store, a, "none"), b) = before
          /\ Get(setExtraTime(Store, a, GoodExtraTimeBody, "none"), b) = before
          /\ \A table \in Tables :
               Get(registerEvent(Store, a, TeamEventBody, "none", table), b) = before

\* Matches 2 and 5 have the same team names and a goal was registered for 5.
C29_Witness ==
  /\ resp = Response("registerEvent", 200, [message |-> EventMessage("goals")])
  /\ 2 \in DOMAIN matches /\ 5 \in DOMAIN matches
  /\ matches[2].home_team = "Valencia" /\ matches[2].away_team = "Valencia"
  /\ matches[5].home_team = "Valencia" /\ matches[5].away_team = "Valencia"
  /\ 5 \in DOMAIN events.goals
  /\ events.goals[5] = EventRow(5, "Valencia", "Cristiano Ronaldo", "12:34")

====
